---- MODULE Spec2Model ----
(***************************************************************************)
(* Storage layer of the Parseable server: the S3 backend of                *)
(* server/src/s3.rs and the sync pass and local buffer directory of        *)
(* server/src/storage.rs.                                                  *)
(*                                                                         *)
(* Strings that the code takes apart (file names, object keys) are         *)
(* sequences of tokens; "." and "/" are tokens of their own.  Blob bodies  *)
(* and JSON values are tagged records.                                     *)
(***************************************************************************)
EXTENDS Integers, Sequences, FiniteSets, TLC

VARIABLES
    remote,       \* the bucket: object key -> body
    rootExists,   \* CONFIG.parseable.local_disk_path exists
    local,        \* local buffer directories: stream -> (file name -> file)
    now,          \* the wall clock, in minutes
    live,         \* STREAM_INFO: stream -> live stats counters
    pc,           \* position of the sync pass
    pass,         \* locals of the running sync pass
    hist,         \* history of the running sync pass (not program state)
    written,      \* what the writer has appended: stream -> (file name -> batches)
    nfail,        \* number of operations that have failed so far
    ret,          \* the last backend call made by a caller, and its result
    results       \* the caller-owned accumulator of query: a sequence of row batches

vars == <<remote, rootExists, local, now, live, pc, pass, hist, written, nfail, ret, results>>

(***************************************************************************)
(* Bounds                                                                  *)
(***************************************************************************)
MaxTime == 1          \* the clock runs over 0..MaxTime
MaxBatches == 2       \* record batches the writer appends in one run
MaxFailures == 1      \* failed operations and unreadable segment files in one run
MaxCount == 1         \* counters of the stats given to put_stats
MaxObjects == 2       \* data objects of a stream in the bucket the callers start from
MaxPage == 2          \* keys in one page of a listing
MaxResults == 3       \* row batches in the accumulator of query

Streams == {"s1", "s2"}
Schemas == {"A", "B"}

(***************************************************************************)
(* Results and options                                                     *)
(***************************************************************************)
Unit == [t |-> "unit"]
Ok(v) == [ok |-> TRUE, err |-> "", val |-> v]
Err(e) == [ok |-> FALSE, err |-> e, val |-> Unit]
None == [some |-> FALSE, v |-> Unit]
Some(x) == [some |-> TRUE, v |-> x]

(***************************************************************************)
(* JSON values (serde_json::Value) and byte bodies                         *)
(***************************************************************************)
JNull == [t |-> "null"]
JNum(n) == [t |-> "num", n |-> n]
JStr(s) == [t |-> "str", s |-> s]
JArr(a) == [t |-> "arr", a |-> a]
JObj(f) == [t |-> "obj", f |-> f]

EmptyBody == [t |-> "empty"]
GarbageBody == [t |-> "garbage"]
JsonBody(v) == [t |-> "json", v |-> v]

\* serde_json::from_slice::<Value>
from_slice(bytes) ==
    IF bytes.t = "json" THEN Ok(bytes.v) ELSE Err("serde")

\* <Value as Index<&str>>::index: Null unless an object holding the key
Index(v, key) ==
    IF v.t = "obj" /\ key \in DOMAIN v.f THEN v.f[key] ELSE JNull

\* <Value as IndexMut<&str>>::index_mut followed by the assignment
IndexSet(v, key, x) ==
    CASE v.t = "null" -> Ok(JObj(key :> x))
      [] v.t = "obj" ->
            Ok(JObj([k \in DOMAIN v.f \cup {key} |-> IF k = key THEN x ELSE v.f[k]]))
      [] OTHER -> Err("panic")

(***************************************************************************)
(* Stats, Alerts, Schema and the format marker, with their serde forms     *)
(***************************************************************************)
Stats(i, s) == [ingestion |-> i, storage |-> s]
StatsDefault == Stats(0, 0)

StatsToValue(st) ==
    JObj("ingestion" :> JNum(st.ingestion) @@ "storage" :> JNum(st.storage))

StatsFromValue(v) ==
    IF /\ v.t = "obj"
       /\ {"ingestion", "storage"} \subseteq DOMAIN v.f
       /\ v.f["ingestion"].t = "num"
       /\ v.f["storage"].t = "num"
    THEN Ok(Stats(v.f["ingestion"].n, v.f["storage"].n))
    ELSE Err("serde")

AlertsDefault == [alerts |-> <<>>]
AlertsToValue(a) == JObj("alerts" :> JArr(a.alerts))
AlertsFromValue(v) ==
    IF v.t = "obj" /\ "alerts" \in DOMAIN v.f /\ v.f["alerts"].t = "arr"
    THEN Ok([alerts |-> v.f["alerts"].a])
    ELSE Err("serde")

SchemaToValue(sch) == JObj("fields" :> JStr(sch))
SchemaFromValue(v) ==
    IF v.t = "obj" /\ "fields" \in DOMAIN v.f /\ v.f["fields"].t = "str"
    THEN Ok(v.f["fields"].s)
    ELSE Err("serde")

\* ObjectStoreFormat::new() serialized
ObjectStoreFormat == JObj("objectstore-format" :> JStr("v1"))

(***************************************************************************)
(* Object keys                                                             *)
(***************************************************************************)
SchemaKey(stream) == <<stream, "/", ".", "schema">>
ParseableKey(stream) == <<stream, "/", ".", "parseable", ".", "json">>
AlertKey(stream) == <<stream, "/", ".", "alert", ".", "json">>

\* put_object: creates or replaces the object at key
PutObject(r, key, body) ==
    [k \in DOMAIN r \cup {key} |-> IF k = key THEN body ELSE r[k]]

\* S3::_get; netfail is a failure of the request other than a missing key
_get(r, key, netfail) ==
    IF netfail THEN Err("Unhandled")
    ELSE IF key \notin DOMAIN r THEN Err("NoSuchKey")
    ELSE Ok(r[key])

(***************************************************************************)
(* Backend operations (impl ObjectStorage for S3).  Each takes the bucket  *)
(* and yields the bucket afterwards and the call's result.  The fail       *)
(* arguments say which of the call's requests the store rejects.           *)
(***************************************************************************)
Out(r, res) == [remote |-> r, res |-> res]

\* serde_json::from_slice::<T>: JSON text, then the shape of T
TypedFromSlice(bytes, FromValue(_)) ==
    LET j == from_slice(bytes)
    IN  IF j.ok THEN FromValue(j.val) ELSE Err("serde")

get_schema(r, stream, netfail) ==
    LET body == _get(r, SchemaKey(stream), netfail)
    IN  IF ~body.ok THEN Err("UnhandledError")
        ELSE LET schema == TypedFromSlice(body.val, SchemaFromValue)
             IN  Ok(IF schema.ok THEN Some(schema.val) ELSE None)

\* get_alerts that propagates the parse failure in place of unwrap_or_default
get_alerts_Strict(r, stream, netfail) ==
    LET res == _get(r, AlertKey(stream), netfail)
    IN  IF res.ok
        THEN LET parsed == TypedFromSlice(res.val, AlertsFromValue)
             IN  IF parsed.ok THEN Ok(parsed.val) ELSE Err("UnhandledError")
        ELSE IF res.err = "NoSuchKey" THEN Ok(AlertsDefault)
        ELSE Err("UnhandledError")

get_alerts(r, stream, netfail) ==
    LET res == _get(r, AlertKey(stream), netfail)
    IN  IF res.ok
        THEN LET parsed == TypedFromSlice(res.val, AlertsFromValue)
             IN  Ok(IF parsed.ok THEN parsed.val ELSE AlertsDefault)
        ELSE IF res.err = "NoSuchKey" THEN Ok(AlertsDefault)
        ELSE Err("UnhandledError")

\* get_stats that propagates the failure of from_value in place of unwrap_or_default
get_stats_Strict(r, stream, netfail) ==
    LET body == _get(r, ParseableKey(stream), netfail)
    IN  IF ~body.ok THEN Err("UnhandledError")
        ELSE LET parseable_metadata == from_slice(body.val)
             IN  IF ~parseable_metadata.ok THEN Err("panic")
                 ELSE LET stats == StatsFromValue(Index(parseable_metadata.val, "stats"))
                      IN  IF stats.ok THEN Ok(stats.val) ELSE Err("UnhandledError")

get_stats(r, stream, netfail) ==
    LET body == _get(r, ParseableKey(stream), netfail)
    IN  IF ~body.ok THEN Err("UnhandledError")
        ELSE LET parseable_metadata == from_slice(body.val)
             IN  IF ~parseable_metadata.ok THEN Err("panic")
                 ELSE LET stats == StatsFromValue(Index(parseable_metadata.val, "stats"))
                      IN  Ok(IF stats.ok THEN stats.val ELSE StatsDefault)

\* put_stats that writes a document holding the stats alone
put_stats_StatsOnly(r, stream, stats, getfail, putfail) ==
    LET body == _get(r, ParseableKey(stream), getfail)
    IN  IF ~body.ok THEN Out(r, Err("UnhandledError"))
        ELSE LET parseable_metadata == from_slice(body.val)
             IN  IF ~parseable_metadata.ok THEN Out(r, Err("panic"))
                 ELSE LET doc == IndexSet(JNull, "stats", StatsToValue(stats))
                      IN  IF putfail THEN Out(r, Err("UnhandledError"))
                          ELSE Out(PutObject(r, ParseableKey(stream), JsonBody(doc.val)),
                                   Ok(Unit))

put_stats(r, stream, stats, getfail, putfail) ==
    LET body == _get(r, ParseableKey(stream), getfail)
    IN  IF ~body.ok THEN Out(r, Err("UnhandledError"))
        ELSE LET parseable_metadata == from_slice(body.val)
             IN  IF ~parseable_metadata.ok THEN Out(r, Err("panic"))
                 ELSE LET doc == IndexSet(parseable_metadata.val, "stats",
                                          StatsToValue(stats))
                      IN  IF ~doc.ok THEN Out(r, Err("panic"))
                          ELSE IF putfail THEN Out(r, Err("UnhandledError"))
                          ELSE Out(PutObject(r, ParseableKey(stream), JsonBody(doc.val)),
                                   Ok(Unit))

put_schema(r, stream, schema, putfail) ==
    IF putfail THEN Out(r, Err("UnhandledError"))
    ELSE Out(PutObject(r, SchemaKey(stream), JsonBody(SchemaToValue(schema))), Ok(Unit))

put_alerts(r, stream, alerts, putfail) ==
    IF putfail THEN Out(r, Err("UnhandledError"))
    ELSE Out(PutObject(r, AlertKey(stream), JsonBody(AlertsToValue(alerts))), Ok(Unit))

\* S3::_create_stream: the marker, then the format document
_create_stream(r, stream, format, markerfail, configfail) ==
    IF markerfail THEN Out(r, Err("UnhandledError"))
    ELSE LET r1 == PutObject(r, SchemaKey(stream), EmptyBody)
         IN  IF configfail THEN Out(r1, Err("UnhandledError"))
             ELSE Out(PutObject(r1, ParseableKey(stream), format), Ok(Unit))

create_stream(r, stream, markerfail, configfail) ==
    _create_stream(r, stream, JsonBody(ObjectStoreFormat), markerfail, configfail)

\* the keys under the prefix "<stream>/"
PrefixKeys(r, stream) == {k \in DOMAIN r : k[1] = stream /\ k[2] = "/"}

\* the keys of a listing, in the order the store yields them
RECURSIVE KeySeq(_)
KeySeq(keys) ==
    IF keys = {} THEN <<>>
    ELSE LET k == CHOOSE x \in keys : TRUE IN <<k>> \o KeySeq(keys \ {k})

\* the pages of list_objects_v2 for the prefix: at most MaxPage keys each,
\* and a single page without keys when nothing is under the prefix
Pages(r, stream) ==
    LET listing == KeySeq(PrefixKeys(r, stream))
        n == Len(listing)
        count == IF n = 0 THEN 1 ELSE (n + MaxPage - 1) \div MaxPage
    IN  [i \in 1..count |->
            SubSeq(listing, (i - 1) * MaxPage + 1,
                   IF i * MaxPage < n THEN i * MaxPage ELSE n)]

\* the while loop of _delete_stream from page i on: delete_objects grows by the
\* keys of each page; listfail is the page whose request fails (0: none), and
\* nocontents says that a page without keys comes with contents = None
RECURSIVE CollectPages(_, _, _, _, _)
CollectPages(pages, i, delete_objects, listfail, nocontents) ==
    IF i > Len(pages) THEN Ok(delete_objects)
    ELSE IF i = listfail THEN Err("UnhandledError")
    ELSE IF pages[i] = <<>> /\ nocontents THEN Err("panic")
    ELSE CollectPages(pages, i + 1, delete_objects \o pages[i], listfail, nocontents)

\* a bucket without the objects at the given keys
DeleteObjects(r, keys) == [k \in DOMAIN r \ keys |-> r[k]]

\* _delete_stream that reads the first page of the listing alone
_delete_stream_FirstPage(r, stream, listfail, nocontents, deletefail, removed) ==
    LET pages == Pages(r, stream)
        listed == CollectPages(<<pages[1]>>, 1, <<>>, listfail, nocontents)
    IN  IF ~listed.ok THEN Out(r, listed)
        ELSE LET keys == {listed.val[i] : i \in 1..Len(listed.val)}
             IN  IF deletefail
                 THEN Out(DeleteObjects(r, removed \cap keys), Err("UnhandledError"))
                 ELSE Out(DeleteObjects(r, keys), Ok(Unit))

\* _delete_stream that sends a delete request for each page as it is read
_delete_stream_PerPage(r, stream, listfail, nocontents, deletefail, removed) ==
    LET pages == Pages(r, stream)
        read == IF listfail = 0 THEN Len(pages) ELSE listfail - 1
        seen == UNION {{pages[i][j] : j \in 1..Len(pages[i])} : i \in 1..read}
        listed == CollectPages(pages, 1, <<>>, listfail, nocontents)
    IN  IF ~listed.ok THEN Out(DeleteObjects(r, seen), listed)
        ELSE IF deletefail THEN Out(DeleteObjects(r, removed), Err("UnhandledError"))
        ELSE Out(DeleteObjects(r, seen), Ok(Unit))

\* S3::_delete_stream: every page is listed, then one delete request names all
\* the keys; when that request fails, the store may have removed the keys in
\* removed
_delete_stream(r, stream, listfail, nocontents, deletefail, removed) ==
    LET listed == CollectPages(Pages(r, stream), 1, <<>>, listfail, nocontents)
    IN  IF ~listed.ok THEN Out(r, listed)
        ELSE LET keys == {listed.val[i] : i \in 1..Len(listed.val)}
             IN  IF deletefail
                 THEN Out(DeleteObjects(r, removed \cap keys), Err("UnhandledError"))
                 ELSE Out(DeleteObjects(r, keys), Ok(Unit))

delete_stream(r, stream, listfail, nocontents, deletefail, removed) ==
    _delete_stream(r, stream, listfail, nocontents, deletefail, removed)

(***************************************************************************)
(* File names and object keys of data files                                *)
(***************************************************************************)
\* str::replace(s, from, to)
replace(s, from, to) ==
    [i \in 1..Len(s) |-> IF s[i] = from THEN to ELSE s[i]]

\* replacen that replaces every occurrence, as str::replace does
RECURSIVE replacen_All(_, _, _, _)
replacen_All(s, from, to, count) ==
    IF s = <<>> THEN s
    ELSE IF Head(s) = from
         THEN <<to>> \o replacen_All(Tail(s), from, to, count)
         ELSE <<Head(s)>> \o replacen_All(Tail(s), from, to, count)

\* str::replacen(s, from, to, count): only the first count occurrences
RECURSIVE replacen(_, _, _, _)
replacen(s, from, to, count) ==
    IF s = <<>> \/ count = 0 THEN s
    ELSE IF Head(s) = from
         THEN <<to>> \o replacen(Tail(s), from, to, count - 1)
         ELSE <<Head(s)>> \o replacen(Tail(s), from, to, count)

\* position of the last "." of a file name, 0 if there is none
LastDot(name) ==
    LET dots == {i \in 1..Len(name) : name[i] = "."}
    IN  IF dots = {} THEN 0 ELSE CHOOSE i \in dots : \A j \in dots : j <= i

\* Path::extension: what follows the last ".", if the name has one after its start
extension(name) ==
    IF LastDot(name) > 1 THEN Some(SubSeq(name, LastDot(name) + 1, Len(name)))
    ELSE None

\* PathBuf::set_extension
set_extension(name, ext) ==
    IF LastDot(name) > 1 THEN SubSeq(name, 1, LastDot(name)) \o <<ext>>
    ELSE name \o <<".", ext>>

\* utils::date_to_prefix, utils::hour_to_prefix, utils::minute_to_prefix
date_to_prefix(date) == <<"date=" \o ToString(date), "/">>
hour_to_prefix(hour) == <<"hour=" \o ToString(hour), "/">>
minute_to_prefix(minute, data_granularity) ==
    <<"minute=" \o ToString((minute \div data_granularity) * data_granularity), "/">>

LOCAL_SYNC_INTERVAL == 60
OBJECT_STORE_DATA_GRANULARITY == LOCAL_SYNC_INTERVAL \div 60

\* utils::hostname_unchecked()
Hostname == <<"node1">>

\* NaiveDateTime::date, hour, minute of a clock counted in minutes
DateOf(time) == time \div 1440
HourOf(time) == (time \div 60) % 24
MinuteOf(time) == time % 60

\* StorageDir::filename_by_time
filename_by_time(time, hostname) ==
    LET uri == date_to_prefix(DateOf(time))
                 \o hour_to_prefix(HourOf(time))
                 \o minute_to_prefix(MinuteOf(time), OBJECT_STORE_DATA_GRANULARITY)
        local_uri == replace(uri, "/", ".")
    IN  local_uri \o hostname \o <<".", "data", ".", "arrows">>

\* StorageDir::filename_by_current_time, at clock value time
filename_by_current_time(time) == filename_by_time(time, Hostname)

\* the object key s3_sync derives for a local columnar file
S3Path(stream, filename) ==
    LET file_suffix == replacen(filename, ".", "/", 3)
    IN  <<stream, "/">> \o file_suffix

(***************************************************************************)
(* Local buffer directory                                                  *)
(***************************************************************************)
\* the orders in which read_dir can yield the entries of a directory
ReadDir(dir) ==
    LET n == Cardinality(DOMAIN dir)
    IN  {e \in [1..n -> DOMAIN dir] : \A i, j \in 1..n : e[i] = e[j] => i = j}

HasExt(name, ext) ==
    LET e == extension(name) IN e.some /\ e.v = <<ext>>

\* arrow_files without the retain that drops the file being written to
arrow_files_WithHot(entries, time) ==
    LET IsArrows(file) == HasExt(file, "arrows")
    IN  SelectSeq(entries, IsArrows)

\* StorageDir::arrow_files, from the entries read_dir yields at clock value time
arrow_files(entries, time) ==
    LET IsArrows(file) == HasExt(file, "arrows")
        paths == SelectSeq(entries, IsArrows)
        hot_filename == filename_by_current_time(time)
        NotHot(file) == file # hot_filename
    IN  SelectSeq(paths, NotHot)

\* parquet_files that filters on the extension of the segment files
parquet_files_WrongExt(entries) ==
    LET IsParquet(file) == HasExt(file, "arrows.parquet")
    IN  SelectSeq(entries, IsParquet)

\* StorageDir::parquet_files
parquet_files(entries) ==
    LET IsParquet(file) == HasExt(file, "parquet")
    IN  SelectSeq(entries, IsParquet)

\* a directory without one file
RemoveFile(dir, name) == [f \in DOMAIN dir \ {name} |-> dir[f]]

\* a directory with a file created or replaced
WriteFile(dir, name, file) ==
    [f \in DOMAIN dir \cup {name} |-> IF f = name THEN file ELSE dir[f]]

\* a segment file: its decodable record batches, and whether its header is broken
ArrowsFile(rows, corrupt) == [rows |-> rows, corrupt |-> corrupt]

\* a columnar file: the batches written so far, and whether the writer was closed
ParquetFile(rows, closed) == [rows |-> rows, closed |-> closed]

\* Metadata::len of a columnar file: its row groups, and the footer once closed
FileLen(file) == file.rows + (IF file.closed THEN 1 ELSE 0)

\* the bytes of a columnar file as an object body
ParquetBody(file) == [t |-> "parquet", rows |-> file.rows, closed |-> file.closed]

(***************************************************************************)
(* The sync pass, ObjectStorage::s3_sync, one action per step              *)
(***************************************************************************)
IdlePass ==
    [streams |-> <<>>, si |-> 1, files |-> <<>>, stream_stats |-> <<>>, res |-> Ok(Unit)]

\* the closed segment files of the local directories, each with its content,
\* and the columnar files
ClosedArrows(loc, time) ==
    {<<sf[1], sf[2], loc[sf[1]][sf[2]]>> :
        sf \in {<<s, f>> \in UNION {{s} \X DOMAIN loc[s] : s \in DOMAIN loc} :
                   HasExt(f, "arrows") /\ f # filename_by_current_time(time)}}
Parquets(loc) ==
    {<<s, f>> \in UNION {{s} \X DOMAIN loc[s] : s \in DOMAIN loc} : HasExt(f, "parquet")}

\* the columnar files whose writer was not closed
Unfinished(loc) == {sf \in Parquets(loc) : ~loc[sf[1]][sf[2]].closed}

\* what the history records of a pass: the clock, the closed segment files,
\* the columnar leftovers and the live counters at its start; the files it
\* uploaded, each with its length; those of them whose key held an object
\* already; the file whose upload failed; whether any operation failed; the
\* columnar leftovers that were unfinished at its start
NoHist ==
    [now |-> 0, closed |-> {}, leftover |-> {}, live |-> <<>>, uploads |-> {},
     again |-> {}, failed |-> {}, anyfail |-> FALSE, partial |-> {}]

\* the stream whose directory the pass is working on
CurStream == pass.streams[pass.si]
\* the file the pass is working on
CurFile == Head(pass.files)

Failed(h) == [h EXCEPT !.anyfail = TRUE]

\* an operation of the filesystem or of the backend fails, or does not
Inject(fail) ==
    /\ fail => nfail < MaxFailures
    /\ nfail' = IF fail THEN nfail + 1 ELSE nfail

\* a fatal error: s3_sync returns Err(kind)
Abort(kind) ==
    /\ pc' = "done"
    /\ pass' = [pass EXCEPT !.res = Err(kind)]

\* StartPass without the check of the root path
StartPass_NoRootCheck ==
    /\ pc = "idle"
    /\ hist' = [NoHist EXCEPT !.now = now, !.closed = ClosedArrows(local, now),
                               !.leftover = Parquets(local), !.live = live,
                               !.partial = Unfinished(local)]
    /\ pc' = "list_arrows"
    /\ \E streams \in ReadDir(live) :
          pass' = [IdlePass EXCEPT !.streams = streams]
    /\ UNCHANGED <<remote, rootExists, local, now, live, written, nfail, ret, results>>

\* s3_sync is entered: the root check and the list of streams
StartPass ==
    /\ pc = "idle"
    /\ hist' = [NoHist EXCEPT !.now = now, !.closed = ClosedArrows(local, now),
                               !.leftover = Parquets(local), !.live = live,
                               !.partial = Unfinished(local)]
    /\ IF ~rootExists
       THEN /\ pc' = "done"
            /\ pass' = IdlePass
       ELSE /\ pc' = "list_arrows"
            /\ \E streams \in ReadDir(live) :
                  pass' = [IdlePass EXCEPT !.streams = streams]
    /\ UNCHANGED <<remote, rootExists, local, now, live, written, nfail, ret, results>>

\* ListArrows that leaves out the segment files that have a columnar file
\* already
ListArrows_SkipConverted ==
    /\ pc = "list_arrows"
    /\ IF pass.si > Len(pass.streams)
       THEN /\ pc' = "stats"
            /\ pass' = pass
       ELSE \E entries \in ReadDir(local[CurStream]) :
               LET NotConverted(file) ==
                       set_extension(file, "parquet") \notin DOMAIN local[CurStream]
                   files == SelectSeq(arrow_files(entries, now), NotConverted)
               IN  /\ pass' = [pass EXCEPT !.files = files]
                   /\ pc' = IF files = <<>> THEN "list_parquet" ELSE "convert"
    /\ UNCHANGED <<remote, rootExists, local, now, live, hist, written, nfail, ret, results>>

\* the next stream, or the end of the loop over the streams
ListArrows ==
    /\ pc = "list_arrows"
    /\ IF pass.si > Len(pass.streams)
       THEN /\ pc' = "stats"
            /\ pass' = pass
       ELSE \E entries \in ReadDir(local[CurStream]) :
               LET files == arrow_files(entries, now)
               IN  /\ pass' = [pass EXCEPT !.files = files]
                   /\ pc' = IF files = <<>> THEN "list_parquet" ELSE "convert"
    /\ UNCHANGED <<remote, rootExists, local, now, live, hist, written, nfail, ret, results>>

\* the outcomes of the conversion of one segment file, in the order of the
\* statements that can fail
ConvertOutcomes ==
    {"ok", "open fails", "create fails", "writer fails", "write fails", "close fails"}

\* a conversion that unlinks the segment file as soon as the columnar file is
\* created
Convert_UnlinkEarly(dir, file, outcome, written_before) ==
    LET parquet_path == set_extension(file, "parquet")
        src == dir[file]
        created(rows, closed) ==
            RemoveFile(WriteFile(dir, parquet_path, ParquetFile(rows, closed)), file)
    IN  CASE outcome = "open fails" -> [dir |-> dir, res |-> Err("Open")]
          [] outcome # "open fails" /\ src.corrupt -> [dir |-> dir, res |-> Err("Arrow")]
          [] outcome = "create fails" /\ ~src.corrupt -> [dir |-> dir, res |-> Err("Create")]
          [] outcome = "writer fails" /\ ~src.corrupt ->
                [dir |-> created(0, FALSE), res |-> Err("Parquet")]
          [] outcome = "write fails" /\ ~src.corrupt ->
                [dir |-> created(written_before, FALSE), res |-> Err("Parquet")]
          [] outcome = "close fails" /\ ~src.corrupt ->
                [dir |-> created(src.rows, FALSE), res |-> Err("Parquet")]
          [] outcome = "ok" /\ ~src.corrupt ->
                [dir |-> created(src.rows, TRUE), res |-> Ok(Unit)]

\* the state of the directory and the result after File::open,
\* StreamReader::try_new, fs::File::create, ArrowWriter::try_new, the loop of
\* writer.write over the record batches and writer.close; written_before is the
\* number of batches written when a writer.write fails
Convert(dir, file, outcome, written_before) ==
    LET parquet_path == set_extension(file, "parquet")
        src == dir[file]
        created(rows, closed) == WriteFile(dir, parquet_path, ParquetFile(rows, closed))
    IN  CASE outcome = "open fails" -> [dir |-> dir, res |-> Err("Open")]
          [] outcome # "open fails" /\ src.corrupt -> [dir |-> dir, res |-> Err("Arrow")]
          [] outcome = "create fails" /\ ~src.corrupt -> [dir |-> dir, res |-> Err("Create")]
          [] outcome = "writer fails" /\ ~src.corrupt ->
                [dir |-> created(0, FALSE), res |-> Err("Parquet")]
          [] outcome = "write fails" /\ ~src.corrupt ->
                [dir |-> created(written_before, FALSE), res |-> Err("Parquet")]
          [] outcome = "close fails" /\ ~src.corrupt ->
                [dir |-> created(src.rows, FALSE), res |-> Err("Parquet")]
          [] outcome = "ok" /\ ~src.corrupt ->
                [dir |-> created(src.rows, TRUE), res |-> Ok(Unit)]

\* ConvertArrows with the errors of writer.write and writer.close dropped: the
\* pass goes on to remove the segment file
ConvertArrows_ErrorDropped ==
    /\ pc = "convert"
    /\ \E outcome \in ConvertOutcomes :
       \E written_before \in 0..(local[CurStream][CurFile].rows - 1) :
          LET out == Convert(local[CurStream], CurFile, outcome, written_before)
              dropped == outcome \in {"write fails", "close fails"}
          IN  /\ outcome # "write fails" => written_before = 0
              /\ Inject(outcome # "ok")
              /\ local' = [local EXCEPT ![CurStream] = out.dir]
              /\ IF out.res.ok \/ dropped
                 THEN /\ pc' = "remove"
                      /\ pass' = pass
                      /\ hist' = IF dropped THEN Failed(hist) ELSE hist
                 ELSE /\ Abort(out.res.err)
                      /\ hist' = Failed(hist)
    /\ UNCHANGED <<remote, rootExists, now, live, written, ret, results>>

\* the body of the loop over dir.arrow_files() up to writer.close
ConvertArrows ==
    /\ pc = "convert"
    /\ \E outcome \in ConvertOutcomes :
       \E written_before \in 0..(local[CurStream][CurFile].rows - 1) :
          LET out == Convert(local[CurStream], CurFile, outcome, written_before)
          IN  /\ outcome # "write fails" => written_before = 0
              /\ Inject(outcome # "ok")
              /\ local' = [local EXCEPT ![CurStream] = out.dir]
              /\ IF out.res.ok
                 THEN /\ pc' = "remove"
                      /\ UNCHANGED <<pass, hist>>
                 ELSE /\ Abort(out.res.err)
                      /\ hist' = Failed(hist)
    /\ UNCHANGED <<remote, rootExists, now, live, written, ret, results>>

\* fs::remove_file of the segment file
RemoveArrows ==
    /\ pc = "remove"
    /\ \E fail \in BOOLEAN :
          /\ Inject(fail)
          /\ IF fail
             THEN /\ Abort("Delete")
                  /\ hist' = Failed(hist)
                  /\ local' = local
             ELSE /\ local' = [local EXCEPT ![CurStream] = RemoveFile(@, CurFile)]
                  /\ pass' = [pass EXCEPT !.files = Tail(@)]
                  /\ pc' = IF Tail(pass.files) = <<>> THEN "list_parquet" ELSE "convert"
                  /\ hist' = hist
    /\ UNCHANGED <<remote, rootExists, now, live, written, ret, results>>

\* the pass moves to the next stream
NextStream(p) == [p EXCEPT !.si = @ + 1, !.files = <<>>]

\* dir.parquet_files()
ListParquet ==
    /\ pc = "list_parquet"
    /\ \E entries \in ReadDir(local[CurStream]) :
          LET files == parquet_files(entries)
          IN  IF files = <<>>
              THEN /\ pass' = NextStream(pass)
                   /\ pc' = "list_arrows"
              ELSE /\ pass' = [pass EXCEPT !.files = files]
                   /\ pc' = "upload"
    /\ UNCHANGED <<remote, rootExists, local, now, live, hist, written, nfail, ret, results>>

\* and_modify without or_insert_with: the first file of a stream is not counted
AddSize_NoInsert(stream_stats, stream, len) ==
    IF stream \in DOMAIN stream_stats
    THEN [stream_stats EXCEPT ![stream] = @ + len]
    ELSE stream_stats

\* stream_stats.entry(stream).and_modify(+= len).or_insert_with(len)
AddSize(stream_stats, stream, len) ==
    IF stream \in DOMAIN stream_stats
    THEN [stream_stats EXCEPT ![stream] = @ + len]
    ELSE stream_stats @@ (stream :> len)

\* UploadParquet with the error of upload_file dropped: the pass goes on to
\* remove the local columnar file
UploadParquet_ErrorDropped ==
    /\ pc = "upload"
    /\ LET s3_path == S3Path(CurStream, CurFile)
           file == local[CurStream][CurFile]
       IN  \E outcome \in {"ok", "upload fails", "metadata fails"} :
              /\ Inject(outcome # "ok")
              /\ pc' = "unlink"
              /\ IF outcome = "upload fails"
                 THEN /\ hist' = [Failed(hist) EXCEPT !.failed = @ \cup {<<CurStream, CurFile>>}]
                      /\ UNCHANGED <<remote, pass>>
                 ELSE LET len == IF outcome = "ok" THEN FileLen(file) ELSE 0
                      IN  /\ remote' = PutObject(remote, s3_path, ParquetBody(file))
                          /\ pass' = [pass EXCEPT !.stream_stats = AddSize(@, CurStream, len)]
                          /\ hist' = [hist EXCEPT
                                 !.uploads = @ \cup {<<CurStream, CurFile, FileLen(file)>>},
                                 !.again = IF s3_path \in DOMAIN remote
                                           THEN @ \cup {<<CurStream, CurFile>>} ELSE @,
                                 !.anyfail = @ \/ outcome # "ok"]
    /\ UNCHANGED <<rootExists, local, now, live, written, ret, results>>

\* UploadParquet that logs a failed upload and goes on with the next file
UploadParquet_Skip ==
    /\ pc = "upload"
    /\ LET s3_path == S3Path(CurStream, CurFile)
           file == local[CurStream][CurFile]
       IN  \E outcome \in {"ok", "upload fails", "metadata fails"} :
              /\ Inject(outcome # "ok")
              /\ IF outcome = "upload fails"
                 THEN /\ hist' = [Failed(hist) EXCEPT !.failed = @ \cup {<<CurStream, CurFile>>}]
                      /\ remote' = remote
                      /\ IF Tail(pass.files) = <<>>
                         THEN /\ pass' = NextStream(pass)
                              /\ pc' = "list_arrows"
                         ELSE /\ pass' = [pass EXCEPT !.files = Tail(@)]
                              /\ pc' = "upload"
                 ELSE LET len == IF outcome = "ok" THEN FileLen(file) ELSE 0
                      IN  /\ remote' = PutObject(remote, s3_path, ParquetBody(file))
                          /\ pass' = [pass EXCEPT !.stream_stats = AddSize(@, CurStream, len)]
                          /\ pc' = "unlink"
                          /\ hist' = [hist EXCEPT
                                 !.uploads = @ \cup {<<CurStream, CurFile, FileLen(file)>>},
                                 !.again = IF s3_path \in DOMAIN remote
                                           THEN @ \cup {<<CurStream, CurFile>>} ELSE @,
                                 !.anyfail = @ \/ outcome # "ok"]
    /\ UNCHANGED <<rootExists, local, now, live, written, ret, results>>

\* upload_file for the derived key, then the size of the file is accumulated
UploadParquet ==
    /\ pc = "upload"
    /\ LET s3_path == S3Path(CurStream, CurFile)
           file == local[CurStream][CurFile]
       IN  \E outcome \in {"ok", "upload fails", "metadata fails"} :
              /\ Inject(outcome # "ok")
              /\ IF outcome = "upload fails"
                 THEN /\ Abort("ObjectStorage")
                      /\ hist' = [Failed(hist) EXCEPT !.failed = @ \cup {<<CurStream, CurFile>>}]
                      /\ remote' = remote
                 ELSE LET len == IF outcome = "ok" THEN FileLen(file) ELSE 0
                      IN  /\ remote' = PutObject(remote, s3_path, ParquetBody(file))
                          /\ pass' = [pass EXCEPT !.stream_stats = AddSize(@, CurStream, len)]
                          /\ pc' = "unlink"
                          /\ hist' = [hist EXCEPT
                                 !.uploads = @ \cup {<<CurStream, CurFile, FileLen(file)>>},
                                 !.again = IF s3_path \in DOMAIN remote
                                           THEN @ \cup {<<CurStream, CurFile>>} ELSE @,
                                 !.anyfail = @ \/ outcome # "ok"]
    /\ UNCHANGED <<rootExists, local, now, live, written, ret, results>>

\* UnlinkParquet that never removes the uploaded file
UnlinkParquet_Keep ==
    /\ pc = "unlink"
    /\ \E fail \in BOOLEAN :
          /\ Inject(fail)
          /\ local' = local
          /\ hist' = IF fail THEN Failed(hist) ELSE hist
    /\ IF Tail(pass.files) = <<>>
       THEN /\ pass' = NextStream(pass)
            /\ pc' = "list_arrows"
       ELSE /\ pass' = [pass EXCEPT !.files = Tail(@)]
            /\ pc' = "upload"
    /\ UNCHANGED <<remote, rootExists, now, live, written, ret, results>>

\* UnlinkParquet that returns the error of fs::remove_file
UnlinkParquet_Fatal ==
    /\ pc = "unlink"
    /\ \E fail \in BOOLEAN :
          /\ Inject(fail)
          /\ IF fail
             THEN /\ local' = local
                  /\ hist' = Failed(hist)
                  /\ Abort("Delete")
             ELSE /\ local' = [local EXCEPT ![CurStream] = RemoveFile(@, CurFile)]
                  /\ hist' = hist
                  /\ IF Tail(pass.files) = <<>>
                     THEN /\ pass' = NextStream(pass)
                          /\ pc' = "list_arrows"
                     ELSE /\ pass' = [pass EXCEPT !.files = Tail(@)]
                          /\ pc' = "upload"
    /\ UNCHANGED <<remote, rootExists, now, live, written, ret, results>>

\* fs::remove_file of the uploaded columnar file; a failure is only logged
UnlinkParquet ==
    /\ pc = "unlink"
    /\ \E fail \in BOOLEAN :
          /\ Inject(fail)
          /\ IF fail
             THEN /\ local' = local
                  /\ hist' = Failed(hist)
             ELSE /\ local' = [local EXCEPT ![CurStream] = RemoveFile(@, CurFile)]
                  /\ hist' = hist
    /\ IF Tail(pass.files) = <<>>
       THEN /\ pass' = NextStream(pass)
            /\ pc' = "list_arrows"
       ELSE /\ pass' = [pass EXCEPT !.files = Tail(@)]
            /\ pc' = "upload"
    /\ UNCHANGED <<remote, rootExists, now, live, written, ret, results>>

\* StatsCounter::add_storage_size
add_storage_size(stats, size) == [stats EXCEPT !.storage = @ + size]

\* one round of the loop over stream_stats, or the end of the pass
PushStats ==
    /\ pc = "stats"
    /\ IF DOMAIN pass.stream_stats = {}
       THEN /\ pc' = "done"
            /\ UNCHANGED <<pass, live, remote, hist, nfail>>
       ELSE \E stream \in DOMAIN pass.stream_stats :
               LET compressed_size == pass.stream_stats[stream]
                   rest == [s \in DOMAIN pass.stream_stats \ {stream} |->
                               pass.stream_stats[s]]
               IN  IF stream \in DOMAIN live
                   THEN \E getfail \in BOOLEAN, putfail \in BOOLEAN :
                           LET stats == add_storage_size(live[stream], compressed_size)
                               out == put_stats(remote, stream, stats, getfail, putfail)
                           IN  /\ Inject(getfail \/ putfail)
                               /\ live' = [live EXCEPT ![stream] = stats]
                               /\ remote' = out.remote
                               /\ IF ~out.res.ok /\ out.res.err = "panic"
                                  \* the expect of put_stats panics in the task of the pass
                                  THEN /\ pc' = "idle"
                                       /\ pass' = IdlePass
                                       /\ hist' = NoHist
                                  \* an error of put_stats is logged
                                  ELSE /\ pc' = pc
                                       /\ pass' = [pass EXCEPT !.stream_stats = rest]
                                       /\ hist' = IF out.res.ok THEN hist ELSE Failed(hist)
                   ELSE /\ pc' = pc
                        /\ pass' = [pass EXCEPT !.stream_stats = rest]
                        /\ UNCHANGED <<live, remote, hist, nfail>>
    /\ UNCHANGED <<rootExists, local, now, written, ret, results>>

\* s3_sync has returned; the caller logs an error and waits for the next tick
Return ==
    /\ pc = "done"
    /\ pc' = "idle"
    /\ pass' = IdlePass
    /\ hist' = NoHist
    /\ UNCHANGED <<remote, rootExists, local, now, live, written, nfail, ret, results>>

\* the pass stops where it is, without returning: the process is killed or
\* the task panics; the files and the objects stay as they are
Crash ==
    /\ pc \notin {"idle", "done"}
    /\ Inject(TRUE)
    /\ pc' = "idle"
    /\ pass' = IdlePass
    /\ hist' = NoHist
    /\ UNCHANGED <<remote, rootExists, local, now, live, written, ret, results>>

(***************************************************************************)
(* The surroundings of the sync pass: the clock and the writer of the      *)
(* local segment files                                                     *)
(***************************************************************************)
\* the clock moves on; the return of a pass is an instant, the clock moves
\* before or after it
Tick ==
    /\ now < MaxTime
    /\ pc # "done"
    /\ now' = now + 1
    /\ UNCHANGED <<remote, rootExists, local, live, pc, pass, hist, written, nfail, ret, results>>

\* the record batches the writer has appended so far
RECURSIVE SumRows(_, _)
SumRows(files, names) ==
    IF names = {} THEN 0
    ELSE LET f == CHOOSE x \in names : TRUE
         IN  files[f] + SumRows(files, names \ {f})

BatchesWritten == SumRows(written["s1"], DOMAIN written["s1"])
                     + SumRows(written["s2"], DOMAIN written["s2"])

\* the writer appends a record batch to the file at path_by_current_time
Ingest ==
    /\ BatchesWritten < MaxBatches
    /\ \E stream \in Streams :
          LET hot == filename_by_current_time(now)
          IN  /\ written' = IF hot \in DOMAIN written[stream]
                            THEN [written EXCEPT ![stream][hot] = @ + 1]
                            ELSE [written EXCEPT ![stream] = @ @@ (hot :> 1)]
              /\ IF hot \in DOMAIN local[stream]
                 THEN /\ local' = [local EXCEPT ![stream][hot].rows = @ + 1]
                      /\ nfail' = nfail
                 ELSE \E corrupt \in BOOLEAN :
                         /\ Inject(corrupt)
                         /\ local' = [local EXCEPT ![stream] =
                                         WriteFile(@, hot, ArrowsFile(1, corrupt))]
              /\ rootExists' = TRUE
              /\ UNCHANGED <<remote, now, live, pc, pass, hist, ret, results>>

NoCall ==
    [op |-> "none", stream |-> "", arg |-> Unit, fault |-> FALSE, res |-> Ok(Unit)]

\* every stream of the registry was created: marker and format document
CreatedStreams ==
    [k \in {SchemaKey(s) : s \in Streams} \cup {ParseableKey(s) : s \in Streams} |->
        IF k[Len(k)] = "schema" THEN EmptyBody ELSE JsonBody(ObjectStoreFormat)]

InitSync ==
    /\ remote = CreatedStreams
    /\ rootExists \in BOOLEAN
    /\ local = [s \in Streams |-> <<>>]
    /\ now = 0
    /\ live = [s \in Streams |-> StatsDefault]
    /\ pc = "idle"
    /\ pass = IdlePass
    /\ hist = NoHist
    /\ written = [s \in Streams |-> <<>>]
    /\ nfail = 0
    /\ ret = NoCall
    /\ results = <<>>

NextSync ==
    \/ StartPass \/ ListArrows \/ ConvertArrows \/ RemoveArrows \/ ListParquet \/ UploadParquet \/ UnlinkParquet
    \/ PushStats \/ Return \/ Crash \/ Tick \/ Ingest

SpecSync == InitSync /\ [][NextSync]_vars

\* the clock runs one slot longer, so that a directory can hold two closed
\* files of the same stream when a pass starts
TickLate ==
    /\ now < MaxTime + 1
    /\ pc # "done"
    /\ now' = now + 1
    /\ UNCHANGED <<remote, rootExists, local, live, pc, pass, hist, written, nfail, ret, results>>

NextSyncLong ==
    \/ StartPass \/ ListArrows \/ ConvertArrows \/ RemoveArrows \/ ListParquet \/ UploadParquet \/ UnlinkParquet
    \/ PushStats \/ Return \/ Crash \/ TickLate \/ Ingest

SpecSyncLong == InitSync /\ [][NextSyncLong]_vars

(***************************************************************************)
(* Repeated passes in which no operation of the backend or of the          *)
(* filesystem fails; the writer may have left a segment file that does not *)
(* decode                                                                  *)
(***************************************************************************)
RetryConvert == ConvertArrows /\ nfail' = nfail
RetryRemove == RemoveArrows /\ nfail' = nfail
RetryUpload == UploadParquet /\ nfail' = nfail
RetryUnlink == UnlinkParquet /\ nfail' = nfail
RetryPushStats == PushStats /\ nfail' = nfail

\* the steps of the pass; the caller starts a pass at every tick of its schedule
RetrySteps ==
    \/ StartPass \/ ListArrows \/ RetryConvert \/ RetryRemove \/ ListParquet
    \/ RetryUpload \/ RetryUnlink \/ RetryPushStats \/ Return

NextRetry == RetrySteps \/ Tick \/ Ingest

\* the scheduler runs a pass after the other, and a pass that runs takes its
\* next step
SpecRetry == InitSync /\ [][NextRetry]_vars /\ WF_vars(RetrySteps)

(***************************************************************************)
(* Callers of the backend: one action per operation of the trait, applied  *)
(* to a bucket whose blobs were left by this or by another writer          *)
(***************************************************************************)
\* a call and its result; fault says that the store rejected one of its requests
Call(op, stream, arg, fault, res) ==
    [op |-> op, stream |-> stream, arg |-> arg, fault |-> fault, res |-> res]

\* the stream the callers work on; the bucket holds the other streams too
CallStreams == {"s1"}

StatsArgs == {Stats(i, s) : i \in 0..MaxCount, s \in 0..MaxCount}
AlertsArgs == {AlertsDefault, [alerts |-> <<"rule1">>]}

SyncIdle == <<rootExists, local, now, live, pc, pass, hist, written, nfail, results>>

CreateStream ==
    \E stream \in CallStreams, markerfail \in BOOLEAN, configfail \in BOOLEAN,
       dir \in BOOLEAN :
       LET out == create_stream(remote, stream, markerfail, configfail)
       IN  /\ remote' = out.remote
           /\ ret' = Call("create_stream", stream, Unit, markerfail \/ configfail, out.res)
           \* fs::create_dir_all, whose result is dropped
           /\ rootExists' = (rootExists \/ (out.res.ok /\ dir))
           /\ UNCHANGED <<local, now, live, pc, pass, hist, written, nfail, results>>

PutStats ==
    \E stream \in CallStreams, stats \in StatsArgs, getfail \in BOOLEAN, putfail \in BOOLEAN :
       LET out == put_stats(remote, stream, stats, getfail, putfail)
       IN  /\ remote' = out.remote
           /\ ret' = Call("put_stats", stream, stats, getfail \/ putfail, out.res)
           /\ UNCHANGED SyncIdle

GetStats ==
    \E stream \in CallStreams, netfail \in BOOLEAN :
       /\ ret' = Call("get_stats", stream, Unit, netfail,
                    get_stats(remote, stream, netfail))
       /\ UNCHANGED <<remote, SyncIdle>>

PutSchema ==
    \E stream \in CallStreams, schema \in Schemas, putfail \in BOOLEAN :
       LET out == put_schema(remote, stream, schema, putfail)
       IN  /\ remote' = out.remote
           /\ ret' = Call("put_schema", stream, schema, putfail, out.res)
           /\ UNCHANGED SyncIdle

GetSchema ==
    \E stream \in CallStreams, netfail \in BOOLEAN :
       /\ ret' = Call("get_schema", stream, Unit, netfail,
                    get_schema(remote, stream, netfail))
       /\ UNCHANGED <<remote, SyncIdle>>

PutAlerts ==
    \E stream \in CallStreams, alerts \in AlertsArgs, putfail \in BOOLEAN :
       LET out == put_alerts(remote, stream, alerts, putfail)
       IN  /\ remote' = out.remote
           /\ ret' = Call("put_alerts", stream, alerts, putfail, out.res)
           /\ UNCHANGED SyncIdle

GetAlerts ==
    \E stream \in CallStreams, netfail \in BOOLEAN :
       /\ ret' = Call("get_alerts", stream, Unit, netfail,
                    get_alerts(remote, stream, netfail))
       /\ UNCHANGED <<remote, SyncIdle>>

\* the blobs a stream prefix can hold when the callers start
Absent == [t |-> "absent"]
SchemaBodies == {Absent, EmptyBody, JsonBody(SchemaToValue("A"))}
ConfigWithStats ==
    JsonBody(JObj("objectstore-format" :> JStr("v1") @@ "stats" :> StatsToValue(Stats(1, 1))))
ConfigBodies ==
    {Absent, GarbageBody, JsonBody(ObjectStoreFormat), ConfigWithStats,
     JsonBody(JObj("objectstore-format" :> JStr("v1") @@ "stats" :> JStr("lost")))}
AlertBodies == {Absent, GarbageBody, JsonBody(AlertsToValue([alerts |-> <<"rule1">>]))}

MetaBucket(sch, cfg, al) ==
    LET body(k) == IF k[Len(k)] = "schema" THEN sch[k[1]]
                   ELSE IF k[Len(k) - 2] = "parseable" THEN cfg[k[1]]
                   ELSE al[k[1]]
        keys == UNION {{SchemaKey(s), ParseableKey(s), AlertKey(s)} : s \in Streams}
    IN  [k \in {k \in keys : body(k) # Absent} |-> body(k)]

InitMeta ==
    /\ \E sch \in [Streams -> SchemaBodies], cfg \in [Streams -> ConfigBodies],
          al \in [Streams -> AlertBodies] :
          /\ \A s \in Streams \ CallStreams :
                /\ sch[s] = EmptyBody
                /\ cfg[s] \in {JsonBody(ObjectStoreFormat), ConfigWithStats}
                /\ al[s] = Absent
          /\ remote = MetaBucket(sch, cfg, al)
    /\ rootExists \in BOOLEAN
    /\ local = [s \in Streams |-> <<>>]
    /\ now = 0
    /\ live = [s \in Streams |-> StatsDefault]
    /\ pc = "idle"
    /\ pass = IdlePass
    /\ hist = NoHist
    /\ written = [s \in Streams |-> <<>>]
    /\ nfail = 0
    /\ ret = NoCall
    /\ results = <<>>

NextMeta ==
    \/ CreateStream \/ PutStats \/ GetStats \/ PutSchema \/ GetSchema
    \/ PutAlerts \/ GetAlerts

SpecMeta == InitMeta /\ [][NextMeta]_vars

(***************************************************************************)
(* delete_stream, on a bucket that holds data objects beside the blobs     *)
(***************************************************************************)
\* the first n data objects of a stream, as a sync pass uploads them
DataObjects(stream, n) ==
    [k \in {S3Path(stream, set_extension(filename_by_time(t, Hostname), "parquet")) :
               t \in 0..(n - 1)} |-> ParquetBody(ParquetFile(1, TRUE))]

DeleteStream ==
    \E stream \in CallStreams, nocontents \in BOOLEAN, deletefail \in BOOLEAN :
    \E listfail \in 0..Len(Pages(remote, stream)) :
    \E removed \in SUBSET PrefixKeys(remote, stream) :
       LET out == delete_stream(remote, stream, listfail, nocontents, deletefail, removed)
           call == [listfail |-> listfail, pages |-> Len(Pages(remote, stream)),
                    objects |-> Cardinality(PrefixKeys(remote, stream))]
       IN  /\ ~deletefail => removed = {}
           /\ remote' = out.remote
           /\ ret' = Call("delete_stream", stream, call, listfail # 0 \/ deletefail, out.res)
           /\ UNCHANGED SyncIdle

InitDelete ==
    /\ \E sch \in [Streams -> SchemaBodies], cfg \in [Streams -> ConfigBodies],
          al \in [Streams -> AlertBodies], n \in 0..MaxObjects :
          /\ \A s \in Streams \ CallStreams :
                /\ sch[s] = EmptyBody
                /\ cfg[s] = ConfigWithStats
                /\ al[s] = Absent
          /\ \A s \in CallStreams :
                /\ sch[s] \in {Absent, EmptyBody}
                /\ cfg[s] \in {Absent, ConfigWithStats}
          /\ remote = MetaBucket(sch, cfg, al) @@ DataObjects("s1", n) @@ DataObjects("s2", 1)
    /\ rootExists = TRUE
    /\ local = [s \in Streams |-> <<>>]
    /\ now = 0
    /\ live = [s \in Streams |-> StatsDefault]
    /\ pc = "idle"
    /\ pass = IdlePass
    /\ hist = NoHist
    /\ written = [s \in Streams |-> <<>>]
    /\ nfail = 0
    /\ ret = NoCall
    /\ results = <<>>

NextDelete == DeleteStream \/ CreateStream \/ PutAlerts

SpecDelete == InitDelete /\ [][NextDelete]_vars

(***************************************************************************)
(* check(): the head_bucket request and the conversion of its error        *)
(***************************************************************************)
\* what a head_bucket request can meet: the request, the network, the
\* server, the credentials and the bucket
Conditions ==
    [request : {"built", "construction fails"},
     network : {"up", "dispatch fails", "times out", "response unreadable"},
     server : {"ok", "internal error"},
     credentials : {"valid", "denied"},
     bucket : {"present", "missing"}]

\* the SdkError<HeadBucketError> of a failed request
SdkError(variant, kind) == [variant |-> variant, kind |-> kind]

\* client.head_bucket().send(): Ok, or the SdkError of the first thing that
\* goes wrong; the service answers 403 before it looks for the bucket
head_bucket(c) ==
    CASE c.request = "construction fails" -> Err(SdkError("ConstructionFailure", ""))
      [] c.request = "built" /\ c.network = "dispatch fails" ->
            Err(SdkError("DispatchFailure", ""))
      [] c.request = "built" /\ c.network = "times out" ->
            Err(SdkError("TimeoutError", ""))
      [] c.request = "built" /\ c.network = "response unreadable" ->
            Err(SdkError("ResponseError", ""))
      [] OTHER ->
            IF c.server = "internal error" THEN Err(SdkError("ServiceError", "Unhandled"))
            ELSE IF c.credentials = "denied" THEN Err(SdkError("ServiceError", "Unhandled"))
            ELSE IF c.bucket = "missing" THEN Err(SdkError("ServiceError", "NotFound"))
            ELSE Ok(Unit)

\* the conversion with the arms of NotFound and of the other errors exchanged
FromHeadBucketError_Exchanged(error) ==
    CASE error.variant = "ServiceError" /\ error.kind = "NotFound" -> "UnhandledError"
      [] error.variant = "ServiceError" /\ error.kind = "Unhandled" -> "AuthenticationError"
      [] error.variant = "DispatchFailure" -> "ConnectionError"
      [] error.variant = "TimeoutError" -> "ConnectionError"
      [] OTHER -> "NoSuchBucket"

\* impl From<SdkError<HeadBucketError>> for ObjectStorageError
FromHeadBucketError(error) ==
    CASE error.variant = "ServiceError" /\ error.kind = "NotFound" -> "NoSuchBucket"
      [] error.variant = "ServiceError" /\ error.kind = "Unhandled" -> "AuthenticationError"
      [] error.variant = "DispatchFailure" -> "ConnectionError"
      [] error.variant = "TimeoutError" -> "ConnectionError"
      [] OTHER -> "UnhandledError"

\* S3::check
check(c) ==
    LET res == head_bucket(c)
    IN  IF res.ok THEN Ok(Unit) ELSE Err(FromHeadBucketError(res.err))

Check ==
    \E c \in Conditions :
       /\ ret' = Call("check", "", c, ~head_bucket(c).ok, check(c))
       /\ UNCHANGED <<remote, SyncIdle>>

NextCheck == Check \/ CreateStream

SpecCheck == InitMeta /\ [][NextCheck]_vars

(***************************************************************************)
(* query, on a bucket that holds data objects, with a caller-owned         *)
(* accumulator                                                             *)
(***************************************************************************)
\* ListingOptions.file_extension
DataSuffix == <<".", "data", ".", "parquet">>

StartsWith(key, prefix) ==
    Len(prefix) <= Len(key) /\ SubSeq(key, 1, Len(prefix)) = prefix

EndsWith(key, suffix) ==
    Len(suffix) <= Len(key)
    /\ SubSeq(key, Len(key) - Len(suffix) + 1, Len(key)) = suffix

\* a prefix of query.get_prefixes(): the stream and one time slot
TimePrefix(stream, time) ==
    <<stream, "/">> \o date_to_prefix(DateOf(time)) \o hour_to_prefix(HourOf(time))
       \o minute_to_prefix(MinuteOf(time), OBJECT_STORE_DATA_GRANULARITY)

\* the queries of the callers: a stream, the time slots asked for, and the SQL text
Queries ==
    [stream_name : CallStreams,
     slots : SUBSET (0..MaxTime) \ {{}},
     query : {"select", "not sql"}]

get_prefixes(q) == {TimePrefix(q.stream_name, t) : t \in q.slots}

\* the objects the listing table scans: under one of the prefixes, with the extension
TableKeys(r, q) ==
    {k \in DOMAIN r : /\ EndsWith(k, DataSuffix)
                      /\ \E prefix \in get_prefixes(q) : StartsWith(k, prefix)}

\* a row batch of the result: the rows of one scanned object
RecordBatch(r, key) == [key |-> key, rows |-> r[key].rows]

RECURSIVE Batches(_, _)
Batches(r, keys) ==
    IF keys = <<>> THEN <<>>
    ELSE <<RecordBatch(r, keys[1])>> \o Batches(r, SubSeq(keys, 2, Len(keys)))

\* df.collect(): the batches of the scanned objects, or the error of reading
\* an object that is not a complete columnar file
collect(r, q) ==
    LET keys == TableKeys(r, q)
    IN  IF \E k \in keys : r[k].t # "parquet" \/ ~r[k].closed
        THEN Err("DataFusionError")
        ELSE Ok(Batches(r, KeySeq(keys)))

\* the steps of query that can fail, and "none"
QueryFaults == {"none", "try_new", "register_table", "sql", "collect"}

\* query that assigns the collected batches to the accumulator
query_Assign(r, acc, q, fault) ==
    IF fault \in {"try_new", "register_table"} THEN [results |-> acc, res |-> Err("DataFusionError")]
    ELSE IF fault = "sql" \/ q.query = "not sql"
    THEN [results |-> acc, res |-> Err("DataFusionError")]
    ELSE LET batches == collect(r, q)
         IN  IF fault = "collect" \/ ~batches.ok
             THEN [results |-> acc, res |-> Err("DataFusionError")]
             ELSE [results |-> batches.val, res |-> Ok(Unit)]

\* S3::query: the table is built and registered, the SQL planned and run, and
\* only then is the accumulator extended
query(r, acc, q, fault) ==
    IF fault \in {"try_new", "register_table"} THEN [results |-> acc, res |-> Err("DataFusionError")]
    ELSE IF fault = "sql" \/ q.query = "not sql"
    THEN [results |-> acc, res |-> Err("DataFusionError")]
    ELSE LET batches == collect(r, q)
         IN  IF fault = "collect" \/ ~batches.ok
             THEN [results |-> acc, res |-> Err("DataFusionError")]
             ELSE [results |-> acc \o batches.val, res |-> Ok(Unit)]

Query ==
    \E q \in Queries, fault \in QueryFaults :
       LET out == query(remote, results, q, fault)
       IN  /\ Len(out.results) <= MaxResults
           /\ results' = out.results
           /\ ret' = Call("query", q.stream_name, [query |-> q, fault |-> fault],
                          fault # "none", out.res)
           /\ UNCHANGED <<remote, rootExists, local, now, live, pc, pass, hist, written, nfail>>

\* a bucket with the blobs of the streams and the data objects of earlier passes
InitQuery ==
    /\ \E n \in 0..MaxObjects :
          remote = MetaBucket([s \in Streams |-> EmptyBody],
                              [s \in Streams |-> ConfigWithStats],
                              [s \in Streams |-> Absent])
                      @@ DataObjects("s1", n) @@ DataObjects("s2", 1)
    /\ rootExists = TRUE
    /\ local = [s \in Streams |-> <<>>]
    /\ now = 0
    /\ live = [s \in Streams |-> StatsDefault]
    /\ pc = "idle"
    /\ pass = IdlePass
    /\ hist = NoHist
    /\ written = [s \in Streams |-> <<>>]
    /\ nfail = 0
    /\ ret = NoCall
    /\ results = <<>>

NextQuery == Query

SpecQuery == InitQuery /\ [][NextQuery]_vars

(***************************************************************************)
(* The object key of a data file, for file names of any minute and host    *)
(***************************************************************************)
\* clock values around the changes of minute bucket, hour and date
KeyTimes == {0, 1, 59, 60, 61, 599, 600, 1439, 1440, 1441, 2879, 2880, 14400}

\* host identifiers, with and without "." and "-"
Hostnames ==
    {<<"node1">>, <<"node1", ".", "example", ".", "com">>, <<"a", "-", "b">>,
     <<"10", ".", "0", ".", "0", ".", "1">>}

\* the key s3_sync derives for the columnar file of the segment file that
\* filename_by_time names
DerivedKey(stream, time, hostname) ==
    S3Path(stream, set_extension(filename_by_time(time, hostname), "parquet"))

DeriveKey ==
    \E stream \in Streams, time \in KeyTimes, hostname \in Hostnames :
       /\ ret' = Call("derive_key", stream, [time |-> time, hostname |-> hostname],
                    FALSE, Ok(DerivedKey(stream, time, hostname)))
       /\ UNCHANGED <<remote, SyncIdle>>

InitNames ==
    /\ remote = CreatedStreams
    /\ rootExists = TRUE
    /\ local = [s \in Streams |-> <<>>]
    /\ now = 0
    /\ live = [s \in Streams |-> StatsDefault]
    /\ pc = "idle"
    /\ pass = IdlePass
    /\ hist = NoHist
    /\ written = [s \in Streams |-> <<>>]
    /\ nfail = 0
    /\ ret = NoCall
    /\ results = <<>>

NextNames == DeriveKey

SpecNames == InitNames /\ [][NextNames]_vars

(***************************************************************************)
(* Properties of the sync pass, checked under SpecSync                     *)
(***************************************************************************)
Hot == filename_by_current_time(now)

\* the columnar file a segment file is converted to, finished
Converted(rows) == ParquetFile(rows, TRUE)

\* the files the running pass has uploaded
Uploaded == {<<u[1], u[2]>> : u \in hist.uploads}

RECURSIVE SumLen(_)
SumLen(ups) ==
    IF ups = {} THEN 0
    ELSE LET u == CHOOSE x \in ups : TRUE IN u[3] + SumLen(ups \ {u})

\* the bytes the running pass has uploaded for a stream
UploadedBytes(s) == SumLen({u \in hist.uploads : u[1] = s})

\* the pass has returned success and none of its operations failed
CleanReturn == pc = "done" /\ pass.res.ok /\ ~hist.anyfail

\* C1: a local .parquet file leaves the buffer directory only in a pass that
\* has uploaded it with success, and a file whose upload failed is still
\* there when the pass returns.
C1_UploadBeforeDelete ==
    /\ [][\A s \in Streams : \A f \in DOMAIN local[s] :
             (HasExt(f, "parquet") /\ f \notin DOMAIN local'[s])
                => <<s, f>> \in {<<u[1], u[2]>> : u \in hist'.uploads}]_vars
    /\ [](pc = "done" => \A sf \in hist.failed : sf[2] \in DOMAIN local[sf[1]])

\* a pass returns after it uploaded and removed one file and failed to upload another
C1_Witness ==
    /\ pc = "done"
    /\ hist.failed # {}
    /\ \E sf \in Uploaded : sf[2] \notin DOMAIN local[sf[1]]

\* C2, as stated: a pass without failures over N closed segment files and no
\* columnar leftovers ends with no closed .arrows file and no .parquet file,
\* and has uploaded exactly N objects, one at the derived key of each file.
C2_CleanPassAsStated ==
    (CleanReturn /\ hist.leftover = {}) =>
        /\ ClosedArrows(local, now) = {}
        /\ Parquets(local) = {}
        /\ Uploaded = {<<c[1], set_extension(c[2], "parquet")>> : c \in hist.closed}
        /\ \A c \in hist.closed :
              LET key == S3Path(c[1], set_extension(c[2], "parquet"))
              IN  key \in DOMAIN remote /\ remote[key] = ParquetBody(Converted(c[3].rows))

\* C2, amended: such a pass ends with none of the N files and no .parquet
\* file left, and with the object of each of the N files at its derived key;
\* when the clock has stayed in the minute of the start of the pass, no closed
\* .arrows file is left and exactly N objects were uploaded.
C2_CleanPass ==
    (CleanReturn /\ hist.leftover = {}) =>
        /\ Parquets(local) = {}
        /\ \A c \in hist.closed :
              LET parquet == set_extension(c[2], "parquet")
                  key == S3Path(c[1], parquet)
              IN  /\ c[2] \notin DOMAIN local[c[1]]
                  /\ <<c[1], parquet>> \in Uploaded
                  /\ key \in DOMAIN remote
                  /\ remote[key] = ParquetBody(Converted(c[3].rows))
        /\ now = hist.now =>
              /\ ClosedArrows(local, now) = {}
              /\ Cardinality(Uploaded) = Cardinality(hist.closed)

\* a pass without failures has returned after working on closed files of both streams
C2_Witness ==
    /\ CleanReturn
    /\ hist.leftover = {}
    /\ now = hist.now
    /\ \A s \in Streams : \E c \in hist.closed : c[1] = s

C6_StatsPushed ==
    CleanReturn =>
        \A s \in {u[1] : u \in hist.uploads} :
           LET stats == get_stats(remote, s, FALSE)
           IN  /\ stats.ok
               /\ stats.val.storage = hist.live[s].storage + UploadedBytes(s)
               /\ stats.val.ingestion = hist.live[s].ingestion

\* a pass without failures has uploaded files for a stream that had bytes before
C6_Witness ==
    /\ CleanReturn
    /\ \E s \in {u[1] : u \in hist.uploads} :
          hist.live[s].storage > 0 /\ UploadedBytes(s) > 0

\* the batches of segment file f of stream s are held by the segment file, by
\* its finished columnar file, or by the object at its derived key
Held(s, f) ==
    LET rows == written[s][f]
        parquet == set_extension(f, "parquet")
        key == S3Path(s, parquet)
    IN  \/ f \in DOMAIN local[s] /\ local[s][f].rows = rows
        \/ parquet \in DOMAIN local[s] /\ local[s][parquet] = Converted(rows)
        \/ key \in DOMAIN remote /\ remote[key] = ParquetBody(Converted(rows))

\* C10: whatever passes have failed, the batches of every closed segment file
\* are held by the file, by its finished columnar file or by the object at its
\* key; a closed file that a failed pass has not converted is as it was.
C10_NoBatchLost ==
    /\ \A s \in Streams : \A f \in DOMAIN written[s] : Held(s, f)
    /\ (pc = "done" /\ ~pass.res.ok) =>
          \A c \in hist.closed :
             c[2] \in DOMAIN local[c[1]] => local[c[1]][c[2]] = c[3]

\* a pass has failed after it converted one closed file, with an unfinished
\* columnar file and an unconverted closed file left behind
C10_Witness ==
    /\ pc = "done"
    /\ ~pass.res.ok
    /\ \E c \in hist.closed : c[2] \notin DOMAIN local[c[1]]
    /\ \E c \in hist.closed : c[2] \in DOMAIN local[c[1]]
    /\ \E s \in Streams : \E f \in DOMAIN local[s] :
          HasExt(f, "parquet") /\ ~local[s][f].closed

\* C11: a local columnar file whose derived key holds an object already has
\* the contents of that object, so uploading it again changes no data object;
\* a pass without failures has removed every file it uploaded again, and the
\* object at its key is the one that was there.
C11_ReuploadIdempotent ==
    /\ \A sf \in Parquets(local) :
          LET key == S3Path(sf[1], sf[2])
          IN  key \in DOMAIN remote => remote[key] = ParquetBody(local[sf[1]][sf[2]])
    /\ CleanReturn =>
          \A sf \in hist.again :
             /\ sf[2] \notin DOMAIN local[sf[1]]
             /\ S3Path(sf[1], sf[2]) \in DOMAIN remote

\* a pass without failures has uploaded again a file that an earlier pass
\* had uploaded and left in the directory
C11_Witness ==
    /\ CleanReturn
    /\ hist.again # {}
    /\ hist.again \subseteq hist.leftover

\* the errors of the conversion of a segment file
ConvertErrors == {"Open", "Arrow", "Create", "Parquet"}

\* C17: a segment file leaves the buffer directory only when its columnar file
\* is there, holds all its decoded batches and is closed; when opening,
\* decoding, creating or writing fails, the pass returns an error and the
\* segment file is still there, as it was.
C17_SegmentOutlivesConversion ==
    [][/\ \A s \in Streams : \A f \in DOMAIN local[s] :
             (HasExt(f, "arrows") /\ f \notin DOMAIN local'[s])
                => LET parquet == set_extension(f, "parquet")
                   IN  /\ parquet \in DOMAIN local[s]
                       /\ local[s][parquet] = Converted(local[s][f].rows)
                       /\ parquet \in DOMAIN local'[s]
                       /\ local'[s][parquet] = local[s][parquet]
       /\ (pc = "convert" /\ pc' \notin {"convert", "remove", "idle"})
             => /\ pc' = "done"
                /\ ~pass'.res.ok
                /\ pass'.res.err \in ConvertErrors
                /\ CurFile \in DOMAIN local'[CurStream]
                /\ local'[CurStream][CurFile] = local[CurStream][CurFile]]_vars

\* a pass has converted and removed one segment file, and has returned the
\* error of the conversion of another, which is still there
C17_Witness ==
    /\ pc = "done"
    /\ ~pass.res.ok
    /\ pass.res.err \in ConvertErrors
    /\ CurFile \in DOMAIN local[CurStream]
    /\ \E c \in hist.closed :
          c[2] \notin DOMAIN local[c[1]] /\ c[3].rows > 0

\* the streams the running pass has not come to
LaterStreams == {pass.streams[i] : i \in (pass.si + 1)..Len(pass.streams)}

\* the files of the current stream that the running pass has not come to
LaterFiles == {pass.files[i] : i \in 2..Len(pass.files)}

\* C18: when upload_file fails, the pass returns an error in that step and
\* changes neither the directory nor the bucket; when it has returned, no
\* later file of the stream was uploaded or removed, and in no later stream
\* was a file converted, uploaded or removed.
C18_UploadFailureStopsPass ==
    /\ [][(pc = "upload" /\ hist'.failed # hist.failed)
             => /\ pc' = "done"
                /\ pass'.res = Err("ObjectStorage")
                /\ local' = local
                /\ remote' = remote
                /\ live' = live]_vars
    /\ []((pc = "done" /\ hist.failed # {})
             => /\ \A f \in LaterFiles :
                   /\ f \in DOMAIN local[CurStream]
                   /\ <<CurStream, f>> \notin Uploaded
                /\ \A s \in LaterStreams :
                   /\ \A u \in hist.uploads : u[1] # s
                   /\ \A c \in hist.closed :
                         c[1] = s => /\ c[2] \in DOMAIN local[s]
                                     /\ local[s][c[2]] = c[3]
                   /\ \A l \in hist.leftover : l[1] = s => l[2] \in DOMAIN local[s]
                   /\ \A f \in DOMAIN local[s] :
                         HasExt(f, "parquet") => <<s, f>> \in hist.leftover)

\* the upload of the first of two columnar files of a stream has failed, and
\* the pass has returned
C18_Witness ==
    /\ pc = "done"
    /\ hist.failed # {}
    /\ LaterFiles # {}

\* a step in which an operation of the pass at position p fails: the failure
\* is counted, the writer has appended nothing and the task was not killed
FailsAt(p) ==
    /\ pc = p
    /\ nfail' = nfail + 1
    /\ written' = written
    /\ pc' # "idle"

\* C19: when the removal of an uploaded columnar file fails, the pass goes on
\* to the next file or stream and the file stays; when put_stats fails, the
\* pass goes on with the stats of the other streams; the result of the pass
\* turns into an error only in a conversion, in the removal of a segment file
\* or in an upload, so a pass in which nothing else fails returns success.
C19_NonFatalFailures ==
    /\ [][/\ FailsAt("unlink") => /\ pc' \in {"upload", "list_arrows"}
                                  /\ pass'.res.ok
                                  /\ local' = local
                                  /\ remote' = remote
          /\ FailsAt("stats") => /\ pc' = "stats"
                                 /\ pass'.res.ok
                                 /\ DOMAIN pass'.stream_stats # DOMAIN pass.stream_stats
          /\ (pass.res.ok /\ ~pass'.res.ok) => pc \in {"convert", "remove", "upload"}]_vars
    /\ []((pc = "done" /\ ~pass.res.ok)
             => pass.res.err \in ConvertErrors \cup {"Delete", "ObjectStorage"})

\* a pass has returned success although the removal of a file it uploaded
\* failed: the file is still in the directory
C19_Witness ==
    /\ pc = "done"
    /\ pass.res.ok
    /\ hist.anyfail
    /\ \E u \in hist.uploads : u[2] \in DOMAIN local[u[1]]

\* C20: a pass that is entered when the local-storage root path does not exist
\* returns success in its first step, and has changed neither the bucket, the
\* directories, the live counters nor the root path.
C20_MissingRootNoChange ==
    [][(pc = "idle" /\ pc' # "idle" /\ ~rootExists)
          => /\ pc' = "done"
             /\ pass'.res = Ok(Unit)
             /\ remote' = remote
             /\ local' = local
             /\ live' = live
             /\ rootExists' = rootExists]_vars

\* a pass has returned at once because the root path does not exist, while
\* the registry knows streams
C20_Witness ==
    /\ pc = "done"
    /\ ~rootExists
    /\ pass.res.ok
    /\ pass.streams = <<>>
    /\ DOMAIN live # {}

\* the segment file a columnar file was converted from
SegmentOf(parquet) == set_extension(parquet, "arrows")

Accounted(s) == live[s].storage = hist.live[s].storage + UploadedBytes(s)

\* C22, as stated: whenever a pass has returned, with success or with a fatal
\* error, the live storage-size counter of each stream has grown by the total
\* size of the columnar files that the pass uploaded for that stream.
C22_UploadedBytesAccounted ==
    pc = "done" => \A s \in Streams : Accounted(s)

\* the data objects of a stream in the bucket
DataKeys(r, s) == {k \in PrefixKeys(r, s) : r[k].t = "parquet"}

RECURSIVE SumObjects(_, _)
SumObjects(r, keys) ==
    IF keys = {} THEN 0
    ELSE LET k == CHOOSE x \in keys : TRUE
         IN  FileLen(r[k]) + SumObjects(r, keys \ {k})

\* the total size of the distinct data objects of a stream
ObjectBytes(s) == SumObjects(remote, DataKeys(remote, s))

\* C23, as stated: when a pass has returned, after any passes before it, the
\* storage-size counter of each stream equals the total size of the distinct
\* data objects uploaded for it.
C23_ObjectsCountedOnce ==
    pc = "done" => \A s \in Streams : live[s].storage = ObjectBytes(s)

\* the names the writer gives to segment files
SegmentNames == {filename_by_time(t, Hostname) : t \in 0..MaxTime}

\* segment file f of stream s is closed and decodes
ClosedAndSound(s, f) ==
    /\ f \in DOMAIN local[s]
    /\ ~local[s][f].corrupt
    /\ f # Hot

\* segment file f of stream s was uploaded and removed locally
Shipped(s, f) ==
    LET parquet == set_extension(f, "parquet")
    IN  /\ f \notin DOMAIN local[s]
        /\ parquet \notin DOMAIN local[s]
        /\ S3Path(s, parquet) \in DOMAIN remote

\* C24, as stated: under repeated passes in which the backend and the
\* filesystem do not fail, every closed segment file that decodes is
\* eventually uploaded and removed locally, also when another segment file
\* fails to decode on every pass.
C24_RetryProgress ==
    \A s \in Streams : \A f \in SegmentNames :
       ClosedAndSound(s, f) ~> Shipped(s, f)

(***************************************************************************)
(* Properties of the backend operations, checked under SpecMeta            *)
(***************************************************************************)
\* the JSON document of the metadata blob of a stream, Null when the blob is
\* missing or is no JSON text
ConfigDoc(r, stream) ==
    LET key == ParseableKey(stream)
    IN  IF key \in DOMAIN r /\ r[key].t = "json" THEN r[key].v ELSE JNull

\* the fields of a JSON object
Fields(v) == IF v.t = "obj" THEN v.f ELSE <<>>

\* the metadata blob of the stream holds stats that parse
CarriesStats(r, stream) == StatsFromValue(Index(ConfigDoc(r, stream), "stats")).ok

\* C4, as stated: create_stream on a stream whose metadata blob carries stats
\* leaves the presence marker in place and get_stats returns afterwards the
\* counters it returned before.
C4_CreateStreamKeepsStats ==
    [][\A s \in CallStreams :
          (ret'.op = "create_stream" /\ ret'.stream = s /\ ret'.res.ok
             /\ CarriesStats(remote, s))
          => /\ SchemaKey(s) \in DOMAIN remote'
             /\ get_stats(remote', s, FALSE).ok
             /\ get_stats(remote', s, FALSE).val = get_stats(remote, s, FALSE).val]_vars

\* C5: a put_stats that succeeds on an existing metadata blob writes back the
\* document with the stats field replaced and every other field as it was,
\* touches no other object, and a following get_stats returns the counters given.
C5_PutStatsRoundTrip ==
    [][\A s \in CallStreams :
          (ret'.op = "put_stats" /\ ret'.stream = s /\ ret'.res.ok)
          => LET before == Fields(ConfigDoc(remote, s))
                 after == Fields(ConfigDoc(remote', s))
                 got == get_stats(remote', s, FALSE)
             IN  /\ got.ok
                 /\ got.val = ret'.arg
                 /\ DOMAIN after = DOMAIN before \cup {"stats"}
                 /\ \A k \in DOMAIN before \ {"stats"} : after[k] = before[k]
                 /\ DOMAIN remote' = DOMAIN remote
                 /\ \A k \in DOMAIN remote \ {ParseableKey(s)} : remote'[k] = remote[k]]_vars

\* put_stats has stored counters other than zero in a blob that keeps its format field
C5_Witness ==
    /\ ret.op = "put_stats"
    /\ ret.res.ok
    /\ ret.arg = Stats(1, 0)
    /\ get_stats(remote, ret.stream, FALSE).val = Stats(1, 0)
    /\ Index(ConfigDoc(remote, ret.stream), "objectstore-format").t = "str"

\* C7, as stated: get_schema on a stream whose schema blob is absent returns
\* None as a success.
C7_AbsentSchemaIsNone ==
    (ret.op = "get_schema" /\ ~ret.fault /\ SchemaKey(ret.stream) \notin DOMAIN remote)
       => (ret.res.ok /\ ~ret.res.val.some)

\* C8: get_alerts returns the default ruleset as a success when the alerts
\* blob is absent and when its content does not parse as a ruleset.
C8_AlertsDefault ==
    (ret.op = "get_alerts" /\ ~ret.fault)
       => LET key == AlertKey(ret.stream)
          IN  (key \notin DOMAIN remote
                 \/ ~TypedFromSlice(remote[key], AlertsFromValue).ok)
              => (ret.res.ok /\ ret.res.val = AlertsDefault)

\* get_alerts has answered for a stream whose alerts blob is no ruleset
C8_Witness ==
    /\ ret.op = "get_alerts"
    /\ ret.res.ok
    /\ AlertKey(ret.stream) \in DOMAIN remote
    /\ remote[AlertKey(ret.stream)] = GarbageBody

\* C9: get_stats returns the zeroed stats as a success when the metadata blob
\* is a JSON document whose stats field is missing or does not parse, and the
\* stats read right after a create_stream that succeeded are the zeroed stats.
C9_StatsDefault ==
    /\ (ret.op = "get_stats" /\ ~ret.fault
          /\ ParseableKey(ret.stream) \in DOMAIN remote
          /\ remote[ParseableKey(ret.stream)].t = "json"
          /\ ~CarriesStats(remote, ret.stream))
       => (ret.res.ok /\ ret.res.val = StatsDefault)
    /\ (ret.op = "create_stream" /\ ret.res.ok)
       => LET got == get_stats(remote, ret.stream, FALSE)
          IN  got.ok /\ got.val = StatsDefault

\* get_stats has answered for a stream whose blob holds a stats field that is no stats
C9_Witness ==
    /\ ret.op = "get_stats"
    /\ ret.res.ok
    /\ Index(ConfigDoc(remote, ret.stream), "stats").t = "str"

\* what get_schema returns for the stream when no request fails
StoredSchema(r, stream) == get_schema(r, stream, FALSE)

\* C25, as stated: for a stream whose schema blob holds a schema S stored by
\* put_schema, get_schema still returns S after a create_stream on that stream.
C25_CreateStreamKeepsSchema ==
    [][\A s \in CallStreams :
          (ret'.op = "create_stream" /\ ret'.stream = s
             /\ StoredSchema(remote, s).ok /\ StoredSchema(remote, s).val.some)
          => /\ StoredSchema(remote', s).ok
             /\ StoredSchema(remote', s).val.some
             /\ StoredSchema(remote', s).val.v = StoredSchema(remote, s).val.v]_vars

(***************************************************************************)
(* Properties of delete_stream, checked under SpecDelete                   *)
(***************************************************************************)
\* C12: a delete_stream that returns success leaves no object under the
\* prefix of the stream, whether the listing had no key, one page or several
\* pages, and no delete_stream removes or changes an object of another stream.
C12_DeleteStreamClean ==
    [][ret'.op = "delete_stream" =>
          /\ ret'.res.ok => PrefixKeys(remote', ret'.stream) = {}
          /\ \A k \in DOMAIN remote \ PrefixKeys(remote, ret'.stream) :
                k \in DOMAIN remote' /\ remote'[k] = remote[k]
          /\ DOMAIN remote' \subseteq DOMAIN remote]_vars

\* delete_stream has returned success after a listing of several pages, and
\* the objects of the other stream are in the bucket
C12_Witness ==
    /\ ret.op = "delete_stream"
    /\ ret.res.ok
    /\ ret.arg.pages > 1
    /\ PrefixKeys(remote, ret.stream) = {}
    /\ PrefixKeys(remote, "s2") # {}

\* C13, as stated: when the listing fails part-way, delete_stream returns an
\* error and leaves the prefix partially deleted, some objects of the stream
\* removed and others still there.
C13_ListFailureLeavesPartial ==
    [][(ret'.op = "delete_stream" /\ ret'.arg.listfail > 1) =>
          /\ ~ret'.res.ok
          /\ PrefixKeys(remote', ret'.stream) # {}
          /\ PrefixKeys(remote', ret'.stream) # PrefixKeys(remote, ret'.stream)]_vars

\* C13, amended: when the listing fails, at its first page or at a later one,
\* delete_stream returns an error and has removed nothing; objects are removed
\* by the one delete request that follows the whole listing, and only a
\* failure of that request can leave the prefix partially deleted.
C13_ListFailureDeletesNothing ==
    [][ret'.op = "delete_stream" =>
          /\ ret'.arg.listfail > 0 => (~ret'.res.ok /\ remote' = remote)
          /\ (~ret'.res.ok /\ remote' # remote) => ret'.arg.listfail = 0]_vars

\* the listing has failed at a page after the first, with objects under the prefix
C13_Witness ==
    /\ ret.op = "delete_stream"
    /\ ret.arg.listfail > 1
    /\ ~ret.res.ok
    /\ Cardinality(PrefixKeys(remote, ret.stream)) = ret.arg.objects
    /\ ret.arg.objects > MaxPage

(***************************************************************************)
(* Properties of the key derivation, checked under SpecNames               *)
(***************************************************************************)
\* the hierarchical key of the data file of a minute bucket and a host
HierarchicalKey(stream, time, hostname) ==
    <<stream, "/">>
       \o date_to_prefix(DateOf(time))
       \o hour_to_prefix(HourOf(time))
       \o minute_to_prefix(MinuteOf(time), OBJECT_STORE_DATA_GRANULARITY)
       \o hostname \o <<".", "data", ".", "parquet">>

\* C14: for every file name that filename_by_time produces, the key derived
\* for its columnar file is <stream>/<date>/<hour>/<minute>/<host>.data.parquet,
\* whatever the host identifier contains.
C14_KeyRestoresPath ==
    ret.op = "derive_key" =>
       ret.res.val = HierarchicalKey(ret.stream, ret.arg.time, ret.arg.hostname)

\* a key was derived for a host identifier that holds "."
C14_Witness ==
    /\ ret.op = "derive_key"
    /\ \E i \in DOMAIN ret.arg.hostname : ret.arg.hostname[i] = "."
    /\ ret.arg.time = 1441
    /\ ret.res.val = HierarchicalKey(ret.stream, ret.arg.time, ret.arg.hostname)

(***************************************************************************)
(* Properties of check(), checked under SpecCheck                          *)
(***************************************************************************)
\* the request was built and reached the service, which answered
Answered(c) == c.request = "built" /\ c.network = "up" /\ c.server = "ok"

\* C15: check() reports a missing bucket as NoSuchBucket, a dispatch failure
\* or a timeout as ConnectionError and an authorization failure as
\* AuthenticationError; it succeeds only when the bucket is reachable, and
\* nothing but a missing bucket is reported as NoSuchBucket.
C15_CheckErrors ==
    ret.op = "check" =>
       LET c == ret.arg
       IN  /\ (Answered(c) /\ c.credentials = "valid" /\ c.bucket = "missing")
                 => (~ret.res.ok /\ ret.res.err = "NoSuchBucket")
           /\ (c.request = "built" /\ c.network \in {"dispatch fails", "times out"})
                 => (~ret.res.ok /\ ret.res.err = "ConnectionError")
           /\ (Answered(c) /\ c.credentials = "denied")
                 => (~ret.res.ok /\ ret.res.err = "AuthenticationError")
           /\ ret.res.ok
                 => (Answered(c) /\ c.credentials = "valid" /\ c.bucket = "present")
           /\ (~ret.res.ok /\ ret.res.err = "NoSuchBucket")
                 => (Answered(c) /\ c.bucket = "missing")

\* check() has reported a missing bucket
C15_Witness ==
    /\ ret.op = "check"
    /\ ~ret.res.ok
    /\ ret.res.err = "NoSuchBucket"
    /\ ret.arg.bucket = "missing"

(***************************************************************************)
(* Claims about query                                                      *)
(***************************************************************************)
\* C16: query appends the row batches of the SQL result to the caller-owned
\* accumulator and leaves the batches already in it unchanged and in their
\* positions; when the table registration or the SQL execution fails, query
\* returns an error and the accumulator is unchanged.
C16_QueryAppends ==
    [][ret'.op = "query" =>
          /\ Len(results') >= Len(results)
          /\ SubSeq(results', 1, Len(results)) = results
          /\ ret'.res.ok =>
                /\ collect(remote, ret'.arg.query).ok
                /\ results' = results \o collect(remote, ret'.arg.query).val
          /\ ret'.arg.fault # "none" => ~ret'.res.ok
          /\ ~ret'.res.ok => results' = results]_vars

\* a query has extended an accumulator that already held batches
C16_Witness ==
    /\ ret.op = "query"
    /\ ret.res.ok
    /\ collect(remote, ret.arg.query).ok
    /\ Len(collect(remote, ret.arg.query).val) > 0
    /\ Len(results) > Len(collect(remote, ret.arg.query).val)

====
